---- MODULE Spec2Model ----
(***************************************************************************)
(* Model of the ghost classifier of OCI LoadBalancer-GhostHunter:          *)
(* OCILoadBalancerGhostHunter.analyze_load_balancer_health                 *)
(* (src/oci-loadbalancer-ghosthunter.py, lines 122-289).                   *)
(*                                                                         *)
(* A call is one step: from pc = "call" with the arguments lb_data,        *)
(* compartment_name, lb_type and the clock reading now, to                 *)
(* pc = "returned" (normal or degraded verdict) or pc = "raised" (an       *)
(* exception left the method).                                             *)
(***************************************************************************)
EXTENDS Integers, Sequences, FiniteSets, TLC

\* The arguments of a call of analyze_load_balancer_health, the time it is
\* made at, its position, what it returned or raised, and its locals.
VARIABLES lb_data, compartment_name, lb_type, now, pc, result, error, ghost_reasons, ghost_trace

\* What earlier calls with the same arguments returned.
VARIABLES previous

\* The two lists of the hunter.
VARIABLES all_load_balancers, suspicious_load_balancers

\* What the OCI API answers, the position of the hunt, the counters of
\* scan_load_balancers, and what was written to the console and to the reports.
VARIABLES tenancy, position, total_load_balancers, total_ghosts, console, csv_rows, html_rows

callVars == <<lb_data, compartment_name, lb_type, now, pc, result, error, ghost_reasons, ghost_trace, previous>>

hunterVars == <<all_load_balancers, suspicious_load_balancers>>

huntVars == <<tenancy, position, total_load_balancers, total_ghosts, console, csv_rows, html_rows>>

vars == <<callVars, hunterVars, huntVars>>

(***************************************************************************)
(* Python values.  t is the type tag; s the text of a str; n the value of  *)
(* an int; v the items of a list or the (key, value) entries of a dict in  *)
(* insertion order.                                                        *)
(***************************************************************************)
PyNone == [t |-> "None", s |-> "", n |-> 0, v |-> <<>>]

PyTrue == [t |-> "True", s |-> "", n |-> 0, v |-> <<>>]

PyFalse == [t |-> "False", s |-> "", n |-> 0, v |-> <<>>]

PyStr(x) == [t |-> "str", s |-> x, n |-> 0, v |-> <<>>]

PyInt(i) == [t |-> "int", s |-> "", n |-> i, v |-> <<>>]

PyList(items) == [t |-> "list", s |-> "", n |-> 0, v |-> items]

PyDict(entries) == [t |-> "dict", s |-> "", n |-> 0, v |-> entries]

\* One (key, value) entry of a dict.
KV(key, val) == [k |-> key, d |-> val]

\* type(x).__name__
TypeName(x) ==
  CASE x.t = "None" -> "NoneType"
    [] x.t \in {"True", "False"} -> "bool"
    [] OTHER -> x.t

\* `not x`: the truth value of x is false.
Falsy(x) ==
  \/ x.t \in {"None", "False"}
  \/ x.t = "str" /\ x.s = ""
  \/ x.t = "int" /\ x.n = 0
  \/ x.t \in {"list", "dict"} /\ x.v = <<>>

\* key in d, for a dict d.
HasKey(d, key) == \E i \in 1..Len(d.v) : d.v[i].k = key

\* d.get(key, default), for a dict d.
Get(d, key, default) ==
  IF HasKey(d, key)
    THEN d.v[CHOOSE i \in 1..Len(d.v) : d.v[i].k = key].d
    ELSE default

\* len(x), for a list or dict x.
PyLen(x) == Len(x.v)

\* str(x) as an f-string renders it, for None, bool, str and int.
Format(x) ==
  CASE x.t = "str" -> x.s
    [] x.t = "int" -> ToString(x.n)
    [] OTHER -> x.t

\* The message of the AttributeError raised by x.attr.
AttributeError(x, attr) ==
  "'" \o TypeName(x) \o "' object has no attribute '" \o attr \o "'"

\* The message of the TypeError raised by len(x).
NoLenError(x) == "object of type '" \o TypeName(x) \o "' has no len()"

\* The message of the TypeError raised by `y in x`.
NotIterableError(x) == "argument of type '" \o TypeName(x) \o "' is not iterable"

\* "; ".join(strs)
RECURSIVE Join(_)
Join(strs) ==
  IF strs = <<>> THEN ""
  ELSE IF Len(strs) = 1 THEN strs[1]
  ELSE strs[1] \o "; " \o Join(Tail(strs))

(***************************************************************************)
(* Rule 1, backend sets (lines 136-160).  Every rule yields err (the       *)
(* message of the exception it raised, "" when none), add (what it adds    *)
(* to ghost_score) and reasons (what it appends to ghost_reasons).         *)
(***************************************************************************)
Raise(msg) == [err |-> msg, add |-> 0, reasons |-> <<>>]

Contribute(points, why) == [err |-> "", add |-> points, reasons |-> why]

\* The items `for b in x` yields, for a list or a dict (its keys).
IterItems(x) ==
  IF x.t = "dict" THEN [i \in 1..Len(x.v) |-> PyStr(x.v[i].k)] ELSE x.v

\* The message of the TypeError raised by iterating x.
IterError(x) ==
  IF x.t \in {"list", "dict"} THEN "" ELSE "'" \o TypeName(x) \o "' object is not iterable"

\* KeepHealthy with b.get('offline', False): a backend without the flag
\* counts as healthy.
KeepHealthy_default_online(b, rest) ==
  IF b.t # "dict" THEN [err |-> AttributeError(b, "get"), v |-> <<>>]
  ELSE IF rest.err # "" THEN rest
  ELSE [err |-> "", v |-> IF Falsy(Get(b, "offline", PyFalse)) THEN <<b>> \o rest.v ELSE rest.v]

\* The filter `if not b.get('offline', True)` of line 150 on b, the first of
\* the backends; rest is what the comprehension yields for the others.
KeepHealthy(b, rest) ==
  IF b.t # "dict" THEN [err |-> AttributeError(b, "get"), v |-> <<>>]
  ELSE IF rest.err # "" THEN rest
  ELSE [err |-> "", v |-> IF Falsy(Get(b, "offline", PyTrue)) THEN <<b>> \o rest.v ELSE rest.v]

\* [b for b in backends if not b.get('offline', True)]   (lines 150, 224)
RECURSIVE healthy_backends(_)
healthy_backends(items) ==
  IF items = <<>> THEN [err |-> "", v |-> <<>>]
  ELSE KeepHealthy(Head(items), healthy_backends(Tail(items)))

\* `if not healthy_backends` (lines 151-152): 1 when the set counts as empty.
NoneHealthy(healthy) ==
  IF healthy.err # "" THEN [err |-> healthy.err, n |-> 0]
  ELSE [err |-> "", n |-> IF healthy.v = <<>> THEN 1 ELSE 0]

\* BackendsAreEmpty without the look at the offline flags.
BackendsAreEmpty_ignoring_offline(backends) ==
  IF Falsy(backends)
    THEN IF backends.t \in {"list", "dict", "str"}
           THEN [err |-> "", n |-> 1]
           ELSE [err |-> NoLenError(backends), n |-> 0]
  ELSE IF IterError(backends) # "" THEN [err |-> IterError(backends), n |-> 0]
  ELSE [err |-> "", n |-> 0]

\* Lines 146-153 on the backends of one set: 1 when the set counts as empty.
BackendsAreEmpty(backends) ==
  IF Falsy(backends)
    THEN IF backends.t \in {"list", "dict", "str"}
           THEN [err |-> "", n |-> 1]
           ELSE [err |-> NoLenError(backends), n |-> 0]
  ELSE IF IterError(backends) # "" THEN [err |-> IterError(backends), n |-> 0]
  ELSE NoneHealthy(healthy_backends(IterItems(backends)))

\* One pass of the loop body of lines 144-153 on bs_data.
BackendSetIsEmpty(bs_data) ==
  IF bs_data.t # "dict" THEN [err |-> AttributeError(bs_data, "get"), n |-> 0]
  ELSE BackendsAreEmpty(Get(bs_data, "backends", PyList(<<>>)))

\* The counter of a loop after the pass first and the passes rest.
AddCount(first, rest) ==
  IF first.err # "" THEN first
  ELSE IF rest.err # "" THEN rest
  ELSE [err |-> "", n |-> first.n + rest.n]

\* empty_backend_count after the loop of lines 144-153 over the entries.
RECURSIVE empty_backend_count(_)
empty_backend_count(entries) ==
  IF entries = <<>> THEN [err |-> "", n |-> 0]
  ELSE AddCount(BackendSetIsEmpty(Head(entries).d), empty_backend_count(Tail(entries)))

\* "Some ... (k/n)"
Fraction(text, k, n) == text \o " (" \o ToString(k) \o "/" \o ToString(n) \o ")"

\* ScoreBackendSets with `elif empty_backend_count >= 0`.
ScoreBackendSets_some_from_zero(empty, total) ==
  IF empty.err # "" THEN Raise(empty.err)
  ELSE IF empty.n = total THEN Contribute(45, <<"All backend sets are empty or offline">>)
  ELSE Contribute(25, <<Fraction("Some backend sets are empty", empty.n, total)>>)

\* Lines 155-160, with empty the counter and total len(backend_sets).
ScoreBackendSets(empty, total) ==
  IF empty.err # "" THEN Raise(empty.err)
  ELSE IF empty.n = total THEN Contribute(45, <<"All backend sets are empty or offline">>)
  ELSE IF empty.n > 0 THEN Contribute(25, <<Fraction("Some backend sets are empty", empty.n, total)>>)
  ELSE Contribute(0, <<>>)

\* CheckBackendSets without the branch of lines 137-139: a record without
\* backend sets goes through the loop.
CheckBackendSets_no_first_branch(backend_sets) ==
  IF backend_sets.t # "dict" THEN Raise(AttributeError(backend_sets, "items"))
  ELSE ScoreBackendSets(empty_backend_count(backend_sets.v), PyLen(backend_sets))

CheckBackendSets(backend_sets) ==
  IF Falsy(backend_sets) THEN Contribute(50, <<"No backend sets configured">>)
  ELSE IF backend_sets.t # "dict" THEN Raise(AttributeError(backend_sets, "items"))
  ELSE ScoreBackendSets(empty_backend_count(backend_sets.v), PyLen(backend_sets))

(***************************************************************************)
(* Rule 2, listeners (lines 162-179).                                      *)
(***************************************************************************)
\* NotIn as `backend_sets and default_backend not in backend_sets`: without
\* backend sets nothing is looked up.
NotIn_only_if_any(default_backend, backend_sets) ==
  CASE backend_sets.t = "dict" ->
         [err |-> "", b |-> /\ backend_sets.v # <<>>
                            /\ ~(default_backend.t = "str" /\ HasKey(backend_sets, default_backend.s))]
    [] backend_sets.t = "list" ->
         [err |-> "", b |-> /\ backend_sets.v # <<>>
                            /\ ~(\E i \in 1..Len(backend_sets.v) : backend_sets.v[i] = default_backend)]
    [] OTHER -> [err |-> NotIterableError(backend_sets), b |-> TRUE]

\* `default_backend not in backend_sets`; err when backend_sets has no `in`.
NotIn(default_backend, backend_sets) ==
  CASE backend_sets.t = "dict" ->
         [err |-> "", b |-> ~(default_backend.t = "str" /\ HasKey(backend_sets, default_backend.s))]
    [] backend_sets.t = "list" ->
         [err |-> "", b |-> ~(\E i \in 1..Len(backend_sets.v) : backend_sets.v[i] = default_backend)]
    [] OTHER -> [err |-> NotIterableError(backend_sets), b |-> TRUE]

\* ListenerIsDangling without `default_backend not in backend_sets`.
ListenerIsDangling_no_lookup(listener_data, backend_sets) ==
  IF listener_data.t # "dict" THEN [err |-> AttributeError(listener_data, "get"), n |-> 0]
  ELSE LET default_backend == Get(listener_data, "default_backend_set_name", PyNone) IN
    [err |-> "", n |-> IF Falsy(default_backend) THEN 1 ELSE 0]

\* One pass of the loop body of lines 169-172: whether the listener lacks a
\* backend set (1 or 0).
ListenerIsDangling(listener_data, backend_sets) ==
  IF listener_data.t # "dict" THEN [err |-> AttributeError(listener_data, "get"), n |-> 0]
  ELSE LET default_backend == Get(listener_data, "default_backend_set_name", PyNone) IN
    IF Falsy(default_backend) THEN [err |-> "", n |-> 1]
    ELSE LET missing == NotIn(default_backend, backend_sets) IN
      IF missing.err # "" THEN [err |-> missing.err, n |-> 0]
      ELSE [err |-> "", n |-> IF missing.b THEN 1 ELSE 0]

\* listeners_without_backends after the loop of lines 169-172.
RECURSIVE listeners_without_backends(_, _)
listeners_without_backends(entries, backend_sets) ==
  IF entries = <<>> THEN [err |-> "", n |-> 0]
  ELSE AddCount(ListenerIsDangling(Head(entries).d, backend_sets),
                listeners_without_backends(Tail(entries), backend_sets))

\* ScoreListeners scoring listeners that all dangle like no listeners at all.
ScoreListeners_all_as_none(dangling, total) ==
  IF dangling.err # "" THEN Raise(dangling.err)
  ELSE IF dangling.n = total THEN Contribute(40, <<"All listeners lack valid backend sets">>)
  ELSE IF dangling.n > 0 THEN Contribute(20, <<Fraction("Some listeners lack backend sets", dangling.n, total)>>)
  ELSE Contribute(0, <<>>)

\* Lines 174-179, with dangling the counter and total len(listeners).
ScoreListeners(dangling, total) ==
  IF dangling.err # "" THEN Raise(dangling.err)
  ELSE IF dangling.n = total THEN Contribute(35, <<"All listeners lack valid backend sets">>)
  ELSE IF dangling.n > 0 THEN Contribute(20, <<Fraction("Some listeners lack backend sets", dangling.n, total)>>)
  ELSE Contribute(0, <<>>)

\* CheckListeners taking a record without listeners as healthy.
CheckListeners_skip_empty(listeners, backend_sets) ==
  IF Falsy(listeners) THEN Contribute(0, <<>>)
  ELSE IF listeners.t # "dict" THEN Raise(AttributeError(listeners, "items"))
  ELSE ScoreListeners(listeners_without_backends(listeners.v, backend_sets), PyLen(listeners))

CheckListeners(listeners, backend_sets) ==
  IF Falsy(listeners) THEN Contribute(40, <<"No listeners configured">>)
  ELSE IF listeners.t # "dict" THEN Raise(AttributeError(listeners, "items"))
  ELSE ScoreListeners(listeners_without_backends(listeners.v, backend_sets), PyLen(listeners))

(***************************************************************************)
(* Rule 3, SSL certificates of Classic load balancers (lines 181-187).     *)
(***************************************************************************)
\* str.upper() on the protocol texts the model uses; a text outside the
\* table has no lower-case letter and is its own upper-case form.
Upper(x) ==
  CASE x \in {"https", "Https", "hTTPS"} -> "HTTPS"
    [] x \in {"ssl", "Ssl"} -> "SSL"
    [] x \in {"http", "Http"} -> "HTTP"
    [] x \in {"tcp", "Tcp"} -> "TCP"
    [] OTHER -> x

\* The filter of line 184 on l, the first of the listeners; rest is what the
\* comprehension yields for the others.
KeepHttps(l, rest) ==
  IF l.t # "dict" THEN [err |-> AttributeError(l, "get"), v |-> <<>>]
  ELSE LET protocol == Get(l, "protocol", PyStr("")) IN
    IF protocol.t # "str" THEN [err |-> AttributeError(protocol, "upper"), v |-> <<>>]
    ELSE IF rest.err # "" THEN rest
    ELSE [err |-> "", v |-> IF Upper(protocol.s) \in {"HTTPS", "SSL"} THEN <<l>> \o rest.v ELSE rest.v]

\* [l for l in listeners.values() if l.get('protocol', '').upper() in ['HTTPS', 'SSL']]
RECURSIVE https_listeners(_)
https_listeners(entries) ==
  IF entries = <<>> THEN [err |-> "", v |-> <<>>]
  ELSE KeepHttps(Head(entries).d, https_listeners(Tail(entries)))

\* ScoreCertificates scoring every HTTPS listener instead of their presence.
ScoreCertificates_per_listener(https) ==
  IF https.err # "" THEN Raise(https.err)
  ELSE Contribute(15 * Len(https.v),
                  [i \in 1..Len(https.v) |-> "HTTPS listeners without SSL certificates"])

\* Lines 185-187.
ScoreCertificates(https) ==
  IF https.err # "" THEN Raise(https.err)
  ELSE IF https.v # <<>> THEN Contribute(15, <<"HTTPS listeners without SSL certificates">>)
  ELSE Contribute(0, <<>>)

\* CheckCertificates without the test of lb_type.
CheckCertificates_any_type(type, certificates, listeners) ==
  IF Falsy(certificates)
    THEN IF listeners.t # "dict" THEN Raise(AttributeError(listeners, "values"))
         ELSE ScoreCertificates(https_listeners(listeners.v))
    ELSE Contribute(0, <<>>)

CheckCertificates(type, certificates, listeners) ==
  IF type = "Classic" /\ Falsy(certificates)
    THEN IF listeners.t # "dict" THEN Raise(AttributeError(listeners, "values"))
         ELSE ScoreCertificates(https_listeners(listeners.v))
    ELSE Contribute(0, <<>>)

(***************************************************************************)
(* Rule 4, lifecycle state (lines 189-193).                                *)
(***************************************************************************)
\* CheckLifecycle accepting ACTIVE only.
CheckLifecycle_active_only(lifecycle_state) ==
  IF ~(lifecycle_state.t = "str" /\ lifecycle_state.s \in {"ACTIVE"})
    THEN Contribute(30, <<"Load balancer in " \o Format(lifecycle_state) \o " state">>)
    ELSE Contribute(0, <<>>)

CheckLifecycle(lifecycle_state) ==
  IF ~(lifecycle_state.t = "str" /\ lifecycle_state.s \in {"ACTIVE", "CREATING"})
    THEN Contribute(30, <<"Load balancer in " \o Format(lifecycle_state) \o " state">>)
    ELSE Contribute(0, <<>>)

(***************************************************************************)
(* Rule 5, age (lines 195-206).  Instants are whole hours; hour 0 is       *)
(* 2024-01-01T00:00:00 UTC.                                                *)
(***************************************************************************)
\* time_created.replace('Z', '+00:00') on the timestamp texts the model uses.
ReplaceZ(x) ==
  CASE x = "2024-01-22T00:00:00Z" -> "2024-01-22T00:00:00+00:00"
    [] x = "2024-03-31T00:00:00Z" -> "2024-03-31T00:00:00+00:00"
    [] x = "2024-03-31T01:00:00Z" -> "2024-03-31T01:00:00+00:00"
    [] x = "2024-04-01T00:00:00Z" -> "2024-04-01T00:00:00+00:00"
    [] x = "2024-06-01T00:00:00Z" -> "2024-06-01T00:00:00+00:00"
    [] OTHER -> x

\* datetime.fromisoformat(x): ok is FALSE when it raises ValueError; local
\* is the wall-clock reading in hours; aware tells whether the text carries
\* a UTC offset, and offset is that offset in hours.
FromIsoFormat(x) ==
  CASE x = "2024-01-22T00:00:00+00:00" -> [ok |-> TRUE, local |-> 504, aware |-> TRUE, offset |-> 0]
    [] x = "2024-01-22 00:00:00+00:00" -> [ok |-> TRUE, local |-> 504, aware |-> TRUE, offset |-> 0]
    [] x = "2024-01-22T00:00:00" -> [ok |-> TRUE, local |-> 504, aware |-> FALSE, offset |-> 0]
    [] x = "2024-03-31T00:00:00+00:00" -> [ok |-> TRUE, local |-> 2160, aware |-> TRUE, offset |-> 0]
    [] x = "2024-03-31T01:00:00+00:00" -> [ok |-> TRUE, local |-> 2161, aware |-> TRUE, offset |-> 0]
    [] x = "2024-03-31T05:00:00+05:00" -> [ok |-> TRUE, local |-> 2165, aware |-> TRUE, offset |-> 5]
    [] x = "2024-04-01T00:00:00+00:00" -> [ok |-> TRUE, local |-> 2184, aware |-> TRUE, offset |-> 0]
    [] x = "2024-06-01T00:00:00+00:00" -> [ok |-> TRUE, local |-> 3648, aware |-> TRUE, offset |-> 0]
    [] OTHER -> [ok |-> FALSE, local |-> 0, aware |-> FALSE, offset |-> 0]

\* (datetime.now(timezone.utc) - created_date).days; ok is FALSE when the
\* subtraction raises TypeError (an aware minus a naive datetime).
DaysOld(clock, created_date) ==
  IF created_date.aware
    THEN [ok |-> TRUE, days |-> (clock - (created_date.local - created_date.offset)) \div 24]
    ELSE [ok |-> FALSE, days |-> 0]

\* CheckAge with ghost_score >= 40.
CheckAge_from_40(time_created, clock, ghost_score) ==
  IF Falsy(time_created) THEN Contribute(0, <<>>)
  ELSE IF time_created.t # "str" THEN Contribute(0, <<>>)
  ELSE LET created_date == FromIsoFormat(ReplaceZ(time_created.s)) IN
    IF ~created_date.ok THEN Contribute(0, <<>>)
    ELSE LET days_old == DaysOld(clock, created_date) IN
      IF ~days_old.ok THEN Contribute(0, <<>>)
      ELSE IF days_old.days > 30 /\ ghost_score >= 40
        THEN Contribute(10, <<"Created " \o ToString(days_old.days) \o " days ago with issues">>)
      ELSE Contribute(0, <<>>)

\* The bare except of lines 205-206 swallows every exception of the block.
CheckAge(time_created, clock, ghost_score) ==
  IF Falsy(time_created) THEN Contribute(0, <<>>)
  ELSE IF time_created.t # "str" THEN Contribute(0, <<>>)
  ELSE LET created_date == FromIsoFormat(ReplaceZ(time_created.s)) IN
    IF ~created_date.ok THEN Contribute(0, <<>>)
    ELSE LET days_old == DaysOld(clock, created_date) IN
      IF ~days_old.ok THEN Contribute(0, <<>>)
      ELSE IF days_old.days > 30 /\ ghost_score > 40
        THEN Contribute(10, <<"Created " \o ToString(days_old.days) \o " days ago with issues">>)
      ELSE Contribute(0, <<>>)

(***************************************************************************)
(* Status (lines 208-218).                                                 *)
(***************************************************************************)
\* DetermineStatus with > for >=.
DetermineStatus_strict(ghost_score) ==
  IF ghost_score > 80 THEN "DEFINITE GHOST"
  ELSE IF ghost_score > 60 THEN "LIKELY GHOST"
  ELSE IF ghost_score > 40 THEN "SUSPICIOUS"
  ELSE IF ghost_score > 20 THEN "REVIEW NEEDED"
  ELSE "ACTIVE"

DetermineStatus(ghost_score) ==
  IF ghost_score >= 80 THEN "DEFINITE GHOST"
  ELSE IF ghost_score >= 60 THEN "LIKELY GHOST"
  ELSE IF ghost_score >= 40 THEN "SUSPICIOUS"
  ELSE IF ghost_score >= 20 THEN "REVIEW NEEDED"
  ELSE "ACTIVE"

(***************************************************************************)
(* Detail strings, shape and tags (lines 220-247).  Each yields err and v, *)
(* the texts collected.                                                    *)
(***************************************************************************)
\* The texts of first followed by those of rest.
Concat(first, rest) ==
  IF first.err # "" THEN first
  ELSE IF rest.err # "" THEN rest
  ELSE [err |-> "", v |-> first.v \o rest.v]

\* Line 225, with healthy the comprehension of line 224 and total len(backends).
HealthyDetail(bs_name, healthy, total) ==
  IF healthy.err # "" THEN [err |-> healthy.err, v |-> <<>>]
  ELSE [err |-> "",
        v |-> <<bs_name \o ":" \o ToString(Len(healthy.v)) \o "/" \o ToString(total) \o " healthy">>]

\* Lines 224-225 on the backends of one set.
BackendsDetail(bs_name, backends) ==
  IF IterError(backends) # "" THEN [err |-> IterError(backends), v |-> <<>>]
  ELSE HealthyDetail(bs_name, healthy_backends(IterItems(backends)), PyLen(backends))

\* One pass of the loop body of lines 223-225.
BackendSetDetail(bs_name, bs_data) ==
  IF bs_data.t # "dict" THEN [err |-> AttributeError(bs_data, "get"), v |-> <<>>]
  ELSE BackendsDetail(bs_name, Get(bs_data, "backends", PyList(<<>>)))

\* backend_details after the loop of lines 222-225 over the entries.
RECURSIVE backend_details(_)
backend_details(entries) ==
  IF entries = <<>> THEN [err |-> "", v |-> <<>>]
  ELSE Concat(BackendSetDetail(Head(entries).k, Head(entries).d), backend_details(Tail(entries)))

\* One pass of the loop body of lines 229-232.
ListenerDetail(listener_name, listener_data) ==
  IF listener_data.t # "dict" THEN [err |-> AttributeError(listener_data, "get"), v |-> <<>>]
  ELSE LET protocol == Get(listener_data, "protocol", PyStr("Unknown"))
           port == Get(listener_data, "port", PyStr("Unknown"))
           backend_set == Get(listener_data, "default_backend_set_name", PyStr("None")) IN
    [err |-> "",
     v |-> <<listener_name \o ":" \o Format(protocol) \o ":" \o Format(port)
             \o "->>" \o Format(backend_set)>>]

\* listener_details after the loop of lines 228-232 over the entries.
RECURSIVE listener_details(_)
listener_details(entries) ==
  IF entries = <<>> THEN [err |-> "", v |-> <<>>]
  ELSE Concat(ListenerDetail(Head(entries).k, Head(entries).d), listener_details(Tail(entries)))

\* x.items() and the loop over it, for backend_sets (line 222) and listeners
\* (line 228).
BackendDetailsOf(backend_sets) ==
  IF backend_sets.t # "dict"
    THEN [err |-> AttributeError(backend_sets, "items"), v |-> <<>>]
    ELSE backend_details(backend_sets.v)

ListenerDetailsOf(listeners) ==
  IF listeners.t # "dict"
    THEN [err |-> AttributeError(listeners, "items"), v |-> <<>>]
    ELSE listener_details(listeners.v)

\* shape (lines 235-237).
Shape(data, type) ==
  IF type = "Network"
    THEN "Network-" \o Format(Get(data, "bandwidth_in_mbps", PyStr("Unknown"))) \o "Mbps"
    ELSE Format(Get(data, "shape_name", PyStr("Unknown")))

\* The "{prefix}{k}={v}" texts of the entries of one tag dict.
TagTexts(prefix, entries) ==
  [i \in 1..Len(entries) |-> prefix \o entries[i].k \o "=" \o Format(entries[i].d)]

\* One pass of the loop body of lines 246-247.
NamespaceTexts(namespace, tags) ==
  IF tags.t # "dict" THEN [err |-> AttributeError(tags, "items"), v |-> <<>>]
  ELSE [err |-> "", v |-> TagTexts(namespace \o ".", tags.v)]

\* The loop of lines 245-247 over the namespaces of defined_tags.
RECURSIVE defined_tag_texts(_)
defined_tag_texts(entries) ==
  IF entries = <<>> THEN [err |-> "", v |-> <<>>]
  ELSE Concat(NamespaceTexts(Head(entries).k, Head(entries).d), defined_tag_texts(Tail(entries)))

\* all_tags (lines 240-247).
all_tags(freeform_tags, defined_tags) ==
  IF freeform_tags.t # "dict" THEN [err |-> AttributeError(freeform_tags, "items"), v |-> <<>>]
  ELSE IF defined_tags.t # "dict" THEN [err |-> AttributeError(defined_tags, "items"), v |-> <<>>]
  ELSE Concat([err |-> "", v |-> TagTexts("", freeform_tags.v)], defined_tag_texts(defined_tags.v))

\* Lines 220-260 in the order they run: the first exception, or the texts.
CollectDetails(bsd, ld, tags, certificates) ==
  LET e == IF bsd.err # "" THEN bsd.err
           ELSE IF ld.err # "" THEN ld.err
           ELSE IF tags.err # "" THEN tags.err
           ELSE IF certificates.t \notin {"dict", "list"} THEN NoLenError(certificates)
           ELSE "" IN
  IF e # "" THEN [err |-> e, tags |-> <<>>, backend_details |-> <<>>, listener_details |-> <<>>]
  ELSE [err |-> "", tags |-> tags.v, backend_details |-> bsd.v, listener_details |-> ld.v]

Details(data) ==
  CollectDetails(BackendDetailsOf(Get(data, "backend_sets", PyDict(<<>>))),
                 ListenerDetailsOf(Get(data, "listeners", PyDict(<<>>))),
                 all_tags(Get(data, "freeform_tags", PyDict(<<>>)),
                          Get(data, "defined_tags", PyDict(<<>>))),
                 Get(data, "certificates", PyDict(<<>>)))

(***************************************************************************)
(* analyze_load_balancer_health (lines 122-289).                           *)
(***************************************************************************)
\* The dict of lines 249-267.
NormalVerdict(data, compartment, type, ghost_score, reasons, details) ==
  LET time_created == Get(data, "time_created", PyNone) IN
  [LoadBalancerName |-> Get(data, "display_name", PyStr("Unknown")),
   LoadBalancerType |-> type,
   Compartment |-> compartment,
   Shape |-> Shape(data, type),
   LifecycleState |-> Get(data, "lifecycle_state", PyStr("UNKNOWN")),
   GhostScore |-> ghost_score,
   GhostStatus |-> DetermineStatus(ghost_score),
   GhostReasons |-> Join(reasons),
   BackendSetCount |-> PyLen(Get(data, "backend_sets", PyDict(<<>>))),
   ListenerCount |-> PyLen(Get(data, "listeners", PyDict(<<>>))),
   CertificateCount |-> PyLen(Get(data, "certificates", PyDict(<<>>))),
   TimeCreated |-> IF Falsy(time_created) THEN PyStr("Unknown") ELSE time_created,
   LoadBalancerId |-> Get(data, "id", PyStr("Unknown")),
   Tags |-> Join(details.tags),
   BackendSetDetails |-> Join(details.backend_details),
   ListenerDetails |-> Join(details.listener_details)]

\* DegradedVerdict reporting what it can read from the record: the status of
\* score 0 and the sizes of the collections that have one.
DegradedVerdict_best_effort(data, compartment, type, e) ==
  [LoadBalancerName |-> Get(data, "display_name", PyStr("Unknown")),
   LoadBalancerType |-> type,
   Compartment |-> compartment,
   Shape |-> "Unknown",
   LifecycleState |-> PyStr("Unknown"),
   GhostScore |-> 0,
   GhostStatus |-> "ACTIVE",
   GhostReasons |-> "Error during analysis: " \o e,
   BackendSetCount |-> PyLen(Get(data, "backend_sets", PyDict(<<>>))),
   ListenerCount |-> PyLen(Get(data, "listeners", PyDict(<<>>))),
   CertificateCount |-> PyLen(Get(data, "certificates", PyDict(<<>>))),
   TimeCreated |-> PyStr("Unknown"),
   LoadBalancerId |-> Get(data, "id", PyStr("Unknown")),
   Tags |-> "",
   BackendSetDetails |-> "",
   ListenerDetails |-> ""]

\* The dict of the exception handler (lines 272-289).
DegradedVerdict(data, compartment, type, e) ==
  [LoadBalancerName |-> Get(data, "display_name", PyStr("Unknown")),
   LoadBalancerType |-> type,
   Compartment |-> compartment,
   Shape |-> "Unknown",
   LifecycleState |-> PyStr("Unknown"),
   GhostScore |-> 0,
   GhostStatus |-> "ANALYSIS FAILED",
   GhostReasons |-> "Error during analysis: " \o e,
   BackendSetCount |-> 0,
   ListenerCount |-> 0,
   CertificateCount |-> 0,
   TimeCreated |-> PyStr("Unknown"),
   LoadBalancerId |-> Get(data, "id", PyStr("Unknown")),
   Tags |-> "",
   BackendSetDetails |-> "",
   ListenerDetails |-> ""]

\* The try block left by an exception e, with the locals it had built.
Failed(e, reasons, trace) ==
  [err |-> e, verdict |-> <<>>, ghost_reasons |-> reasons, trace |-> trace]

\* The locals after a rule: err, ghost_score, ghost_reasons and trace, the
\* values ghost_score had after each rule completed so far.
Accumulate(locals, rule) ==
  IF rule.err # "" THEN [locals EXCEPT !.err = rule.err]
  ELSE [err |-> "",
        ghost_score |-> locals.ghost_score + rule.add,
        ghost_reasons |-> locals.ghost_reasons \o rule.reasons,
        trace |-> Append(locals.trace, locals.ghost_score + rule.add)]

\* Rule1 with ghost_score kept by the hunter from one call to the next.
Rule1_score_kept(data) ==
  Accumulate([err |-> "", ghost_score |-> 5 * Len(all_load_balancers), ghost_reasons |-> <<>>, trace |-> <<>>],
             CheckBackendSets(Get(data, "backend_sets", PyDict(<<>>))))

\* Lines 125-160.
Rule1(data) ==
  Accumulate([err |-> "", ghost_score |-> 0, ghost_reasons |-> <<>>, trace |-> <<>>],
             CheckBackendSets(Get(data, "backend_sets", PyDict(<<>>))))

\* Lines 162-179.
Rule2(data, locals) ==
  IF locals.err # "" THEN locals
  ELSE Accumulate(locals, CheckListeners(Get(data, "listeners", PyDict(<<>>)),
                                         Get(data, "backend_sets", PyDict(<<>>))))

\* Lines 181-187.
Rule3(data, type, locals) ==
  IF locals.err # "" THEN locals
  ELSE Accumulate(locals, CheckCertificates(type, Get(data, "certificates", PyDict(<<>>)),
                                            Get(data, "listeners", PyDict(<<>>))))

\* Rule4 reading lb_data['lifecycle_state'].
Rule4_subscript(data, locals) ==
  IF locals.err # "" THEN locals
  ELSE IF ~HasKey(data, "lifecycle_state") THEN [locals EXCEPT !.err = "'lifecycle_state'"]
  ELSE Accumulate(locals, CheckLifecycle(Get(data, "lifecycle_state", PyStr("UNKNOWN"))))

\* Lines 189-193.
Rule4(data, locals) ==
  IF locals.err # "" THEN locals
  ELSE Accumulate(locals, CheckLifecycle(Get(data, "lifecycle_state", PyStr("UNKNOWN"))))

\* Lines 195-206.
Rule5(data, clock, locals) ==
  IF locals.err # "" THEN locals
  ELSE Accumulate(locals, CheckAge(Get(data, "time_created", PyNone), clock, locals.ghost_score))

\* Lines 125-206: the five rules in order.
Rules(data, type, clock) ==
  Rule5(data, clock, Rule4(data, Rule3(data, type, Rule2(data, Rule1(data)))))

\* Lines 220-267 after the rules.
Return(data, compartment, type, locals, details) ==
  IF details.err # "" THEN Failed(details.err, locals.ghost_reasons, locals.trace)
  ELSE [err |-> "",
        verdict |-> NormalVerdict(data, compartment, type, locals.ghost_score,
                                  locals.ghost_reasons, details),
        ghost_reasons |-> locals.ghost_reasons,
        trace |-> locals.trace]

\* Lines 208-267 after the rules.
Finish(data, compartment, type, locals) ==
  IF locals.err # "" THEN Failed(locals.err, locals.ghost_reasons, locals.trace)
  ELSE Return(data, compartment, type, locals, Details(data))

\* The try block of lines 124-267: err is the message of the exception that
\* left it ("" when it returned), verdict the dict it returned, ghost_reasons
\* the list of that name and trace the values of ghost_score after each of
\* the rules it completed.
TryBlock(data, compartment, type, clock) ==
  IF data.t # "dict" THEN Failed(AttributeError(data, "get"), <<>>, <<>>)
  ELSE Finish(data, compartment, type, Rules(data, type, clock))

(***************************************************************************)
(* The records the calls are made with.                                    *)
(***************************************************************************)
MaxBackendSets == 2

MaxBackends == 2

MaxListeners == 2

\* Marks a key a record leaves out.
Absent == [t |-> "absent", s |-> "", n |-> 0, v |-> <<>>]

\* The dict of the entries whose value is not Absent.
Record(entries) == PyDict(SelectSeq(entries, LAMBDA e : e.d # Absent))

\* The sequences over S of length at most n.
SeqsUpTo(S, n) == UNION {[1..m -> S] : m \in 0..n}

BackendSetName == "bs"

ListenerName == "l"

\* The dict that gives the values of the sequence vals the names prefix1, prefix2, ...
Named(prefix, vals) == PyDict([i \in 1..Len(vals) |-> KV(prefix \o ToString(i), vals[i])])

Backend(offline) == Record(<<KV("ip_address", PyStr("10.0.0.5")), KV("port", PyInt(80)), KV("offline", offline)>>)

BackendSet(backends) == Record(<<KV("backends", backends)>>)

Listener(protocol, default_backend) == Record(<<KV("protocol", protocol), KV("port", PyInt(443)), KV("default_backend_set_name", default_backend)>>)

Healthy == BackendSet(PyList(<<Backend(PyFalse)>>))

Offline == BackendSet(PyList(<<Backend(PyTrue)>>))

\* Every well-typed backend set of at most MaxBackends backends.
BackendSetValues ==
  {BackendSet(Absent)} \cup
  {BackendSet(PyList(q)) : q \in SeqsUpTo({Backend(f) : f \in {Absent, PyTrue, PyFalse}}, MaxBackends)}

LoadBalancer(backend_sets, listeners, certificates, lifecycle_state, time_created) ==
  Record(<<KV("id", PyStr("ocid1.loadbalancer.oc1..a")),
           KV("display_name", PyStr("lb-a")),
           KV("lifecycle_state", lifecycle_state),
           KV("time_created", time_created),
           KV("shape_name", PyStr("flexible")),
           KV("backend_sets", backend_sets),
           KV("listeners", listeners),
           KV("certificates", certificates),
           KV("freeform_tags", PyDict(<<KV("env", PyStr("dev"))>>)),
           KV("defined_tags", PyDict(<<KV("ops", PyDict(<<KV("owner", PyStr("chef"))>>))>>))>>)

Certificate == PyDict(<<KV("cert1", PyDict(<<>>))>>)

\* 2024-05-01T00:00:00 UTC, and a day later.
Clocks == {2904, 2928}

Types == {"Classic", "Network"}

\* Records that vary the backend sets.
BackendSetRecords ==
  {LoadBalancer(bs, ls, PyDict(<<>>), PyStr("ACTIVE"), tc) :
     bs \in {Absent} \cup {Named(BackendSetName, q) : q \in SeqsUpTo(BackendSetValues, MaxBackendSets)},
     ls \in {Absent, Named(ListenerName, <<Listener(PyStr("TCP"), PyStr("bs1"))>>)},
     tc \in {Absent, PyStr("2024-01-22T00:00:00Z")}}

\* Records that vary what the listeners point to.
ListenerRecords ==
  {LoadBalancer(bs, ls, PyDict(<<>>), PyStr("ACTIVE"), Absent) :
     bs \in {Absent} \cup {Named(BackendSetName, q) : q \in SeqsUpTo({Healthy, Offline}, MaxBackendSets)},
     ls \in {Absent} \cup
            {Named(ListenerName, q) :
               q \in SeqsUpTo({Listener(PyStr("HTTP"), d) :
                                 d \in {Absent, PyNone, PyStr("")} \cup
                                       {PyStr(BackendSetName \o ToString(i)) : i \in 1..(MaxBackendSets + 1)}},
                              MaxListeners)}}

\* Records that vary the protocols and the certificates.
CertificateRecords ==
  {LoadBalancer(Named(BackendSetName, <<Healthy>>), ls, cs, PyStr("ACTIVE"), Absent) :
     ls \in {Absent} \cup
            {Named(ListenerName, q) :
               q \in SeqsUpTo({Listener(p, PyStr("bs1")) :
                                 p \in {Absent, PyStr("TCP"), PyStr("HTTP"), PyStr("HTTPS"),
                                        PyStr("https"), PyStr("SSL"), PyStr("Ssl")}},
                              MaxListeners)},
     cs \in {Absent, PyDict(<<>>), Certificate}}

\* Records that combine the outcomes of the rules.
ScoreRecords ==
  {LoadBalancer(bs, ls, cs, st, tc) :
     bs \in {PyDict(<<>>),
             Named(BackendSetName, <<Offline>>),
             Named(BackendSetName, <<Healthy, Offline>>),
             Named(BackendSetName, <<Healthy>>)},
     ls \in {PyDict(<<>>),
             Named(ListenerName, <<Listener(PyStr("TCP"), PyStr("bs1"))>>),
             Named(ListenerName, <<Listener(PyStr("HTTPS"), PyStr("bs1"))>>),
             Named(ListenerName, <<Listener(PyStr("TCP"), PyStr(""))>>),
             Named(ListenerName, <<Listener(PyStr("HTTPS"), PyStr("bs9"))>>),
             Named(ListenerName, <<Listener(PyStr("TCP"), PyStr("bs1")), Listener(PyStr("TCP"), PyStr(""))>>),
             Named(ListenerName, <<Listener(PyStr("HTTPS"), PyStr("bs1")), Listener(PyStr("TCP"), Absent)>>)},
     cs \in {PyDict(<<>>), Certificate},
     st \in {Absent, PyStr("ACTIVE"), PyStr("CREATING"), PyStr("FAILED")},
     tc \in {Absent, PyNone, PyStr(""), PyStr("not-a-date"), PyInt(20240122),
             PyStr("2024-01-22T00:00:00"), PyStr("2024-01-22T00:00:00Z"),
             PyStr("2024-01-22 00:00:00+00:00"), PyStr("2024-03-31T00:00:00Z"),
             PyStr("2024-03-31T01:00:00Z"), PyStr("2024-03-31T05:00:00+05:00"),
             PyStr("2024-04-01T00:00:00Z"), PyStr("2024-06-01T00:00:00Z")}}

\* Records that leave out any subset of their fields; the backend sets and
\* the listeners they have leave out theirs.
SparseRecords ==
  {Record(<<KV("id", id), KV("display_name", dn), KV("lifecycle_state", st),
            KV("time_created", tc), KV("shape_name", sn), KV("backend_sets", bs),
            KV("listeners", ls), KV("certificates", cs), KV("freeform_tags", ft),
            KV("defined_tags", dt)>>) :
     id \in {Absent, PyStr("ocid1.loadbalancer.oc1..c")},
     dn \in {Absent, PyStr("lb-c")},
     st \in {Absent, PyStr("ACTIVE")},
     tc \in {Absent, PyStr("2024-01-22T00:00:00Z")},
     sn \in {Absent, PyStr("flexible")},
     bs \in {Absent, Named(BackendSetName, <<BackendSet(Absent), BackendSet(PyList(<<Backend(Absent)>>))>>)},
     ls \in {Absent, Named(ListenerName, <<Record(<<>>), Listener(PyStr("HTTPS"), PyStr("bs1"))>>)},
     cs \in {Absent, Certificate},
     ft \in {Absent, PyDict(<<KV("env", PyStr("dev"))>>)},
     dt \in {Absent, PyDict(<<KV("ops", PyDict(<<KV("owner", PyStr("chef"))>>))>>)}}

\* Records with content that is not of the type the classifier expects.
MalformedRecords ==
  {Record(<<KV("id", PyStr("ocid1.loadbalancer.oc1..b")),
            KV("display_name", PyStr("lb-b")),
            KV("lifecycle_state", PyStr("ACTIVE")),
            KV("backend_sets", bs),
            KV("listeners", ls),
            KV("certificates", cs),
            KV("freeform_tags", ft),
            KV("defined_tags", dt)>>) :
     bs \in {PyDict(<<>>), Named(BackendSetName, <<Healthy>>), PyNone, PyList(<<>>),
             PyList(<<Healthy>>), Named(BackendSetName, <<PyNone>>),
             Named(BackendSetName, <<Healthy, PyList(<<>>)>>),
             Named(BackendSetName, <<BackendSet(PyNone)>>),
             Named(BackendSetName, <<BackendSet(PyList(<<Backend(PyFalse), PyNone>>))>>)},
     ls \in {PyDict(<<>>), Named(ListenerName, <<Listener(PyStr("HTTPS"), PyStr("bs1"))>>),
             PyNone, PyList(<<>>), PyList(<<Listener(PyStr("TCP"), PyStr("bs1"))>>),
             Named(ListenerName, <<PyNone>>),
             Named(ListenerName, <<Listener(PyNone, PyStr("bs1"))>>),
             Named(ListenerName, <<Listener(PyStr("TCP"), PyStr("bs1")), Listener(PyInt(6), PyStr(""))>>)},
     cs \in {PyDict(<<>>), PyNone, PyList(<<PyStr("cert1")>>)},
     ft \in {PyDict(<<>>), PyNone},
     dt \in {PyDict(<<>>), PyNone, PyDict(<<KV("ops", PyNone)>>)}}

\* Arguments that are not a dict at all.
NotRecords == {PyNone, PyList(<<>>)}

Records ==
  BackendSetRecords \cup ListenerRecords \cup CertificateRecords \cup ScoreRecords
    \cup SparseRecords \cup MalformedRecords \cup NotRecords

(***************************************************************************)
(* The calls.                                                              *)
(***************************************************************************)
Init ==
  /\ lb_data \in Records
  /\ compartment_name = "kitchen"
  /\ lb_type \in Types
  /\ now \in Clocks
  /\ pc = "call"
  /\ result = <<>>
  /\ error = ""
  /\ ghost_reasons = <<>>
  /\ ghost_trace = <<>>
  /\ previous = <<>>
  /\ all_load_balancers = <<>>
  /\ suspicious_load_balancers = <<>>
  /\ tenancy = <<>>
  /\ position = [at |-> "analysis", c |-> 0, i |-> 0]
  /\ total_load_balancers = 0
  /\ total_ghosts = 0
  /\ console = <<>>
  /\ csv_rows = <<>>
  /\ html_rows = <<>>

\* The call returns the dict of lines 249-267.
AnalyzeReturns ==
  /\ pc = "call"
  /\ \E run \in {TryBlock(lb_data, compartment_name, lb_type, now)} :
       /\ run.err = ""
       /\ result' = run.verdict
       /\ ghost_reasons' = run.ghost_reasons
       /\ ghost_trace' = run.trace
  /\ pc' = "returned"
  /\ UNCHANGED <<lb_data, compartment_name, lb_type, now, error, previous, hunterVars, huntVars>>

\* The handler of lines 269-289 catches an exception and returns its dict.
AnalyzeDegraded ==
  /\ pc = "call"
  /\ lb_data.t = "dict"
  /\ \E run \in {TryBlock(lb_data, compartment_name, lb_type, now)} :
       /\ run.err # ""
       /\ error' = run.err
       /\ result' = DegradedVerdict(lb_data, compartment_name, lb_type, run.err)
       /\ ghost_reasons' = run.ghost_reasons
       /\ ghost_trace' = run.trace
  /\ pc' = "returned"
  /\ UNCHANGED <<lb_data, compartment_name, lb_type, now, previous, hunterVars, huntVars>>

\* The handler itself raises on lb_data.get (line 270) and the exception
\* leaves the method.
AnalyzeRaises ==
  /\ pc = "call"
  /\ lb_data.t # "dict"
  /\ \E run \in {TryBlock(lb_data, compartment_name, lb_type, now)} :
       /\ run.err # ""
       /\ ghost_reasons' = run.ghost_reasons
       /\ ghost_trace' = run.trace
  /\ error' = AttributeError(lb_data, "get")
  /\ pc' = "raised"
  /\ UNCHANGED <<lb_data, compartment_name, lb_type, now, result, previous, hunterVars, huntVars>>

\* The caller keeps what the call returned (line 379) and makes the call
\* once more, with the same arguments at the same time.
CallAgain ==
  /\ pc = "returned"
  /\ previous = <<>>
  /\ previous' = <<result>>
  /\ all_load_balancers' = Append(all_load_balancers, result)
  /\ pc' = "call"
  /\ result' = <<>>
  /\ error' = ""
  /\ ghost_reasons' = <<>>
  /\ ghost_trace' = <<>>
  /\ UNCHANGED <<lb_data, compartment_name, lb_type, now, suspicious_load_balancers, huntVars>>

Next == AnalyzeReturns \/ AnalyzeDegraded \/ AnalyzeRaises \/ CallAgain

Spec == Init /\ [][Next]_vars

(***************************************************************************)
(* The hunt of main (lines 949-961): scan_load_balancers, export_to_csv    *)
(* and generate_html_report on a freshly constructed hunter.               *)
(***************************************************************************)
MaxCompartments == 2

MaxListed == 1

\* What an API call that raises gives instead of its data.
Unavailable == [t |-> "unavailable", s |-> "", n |-> 0, v |-> <<>>]

\* The text of the exception of an API call that raises.
ServiceError == "503 ServiceUnavailable"

\* The answer of a listing call: the items, or ok FALSE when it raises.
Answer(items) == [ok |-> TRUE, data |-> items]

NoAnswer == [ok |-> FALSE, data |-> <<>>]

\* x or {}, and str(x) if x else None.
OrEmpty(x) == IF Falsy(x) THEN PyDict(<<>>) ELSE x

StrOrNone(x) == IF Falsy(x) THEN PyNone ELSE PyStr(Format(x))

\* lb_dict (lines 349-366), from the summary lb of the listing, whose details
\* are what get_load_balancer returns.
ClassicDict(lb) ==
  Record(<<KV("id", PyStr(lb.id)),
           KV("display_name", PyStr(lb.display_name)),
           KV("lifecycle_state", lb.details.lifecycle_state),
           KV("time_created", StrOrNone(lb.details.time_created)),
           KV("shape_name", PyStr("flexible")),
           KV("backend_sets", OrEmpty(lb.details.backend_sets)),
           KV("listeners", OrEmpty(lb.details.listeners)),
           KV("certificates", OrEmpty(lb.details.certificates)),
           KV("freeform_tags", OrEmpty(lb.details.freeform_tags)),
           KV("defined_tags", OrEmpty(lb.details.defined_tags))>>)

\* The entry of lines 419-421 for a backend set of count backends.
NetworkBackendSet(count) == BackendSet(PyList([i \in 1..count |-> Backend(PyFalse)]))

\* nlb_dict['backend_sets'] after the loop of lines 412-421 over sets: a
\* list_backends that raises ends the loop and keeps the sets stored so far.
RECURSIVE NetworkBackendSets(_)
NetworkBackendSets(sets) ==
  IF sets = <<>> \/ ~Head(sets).backends.ok THEN <<>>
  ELSE <<KV(Head(sets).name, NetworkBackendSet(Head(sets).backends.data))>>
         \o NetworkBackendSets(Tail(sets))

\* nlb_dict (lines 392-439), from the summary nlb of the listing.
NetworkDict(nlb) ==
  Record(<<KV("id", PyStr(nlb.id)),
           KV("display_name", PyStr(nlb.display_name)),
           KV("lifecycle_state", nlb.details.lifecycle_state),
           KV("time_created", StrOrNone(nlb.details.time_created)),
           KV("bandwidth_in_mbps", PyInt(10)),
           KV("backend_sets", PyDict(NetworkBackendSets(nlb.backend_sets.data))),
           KV("listeners", PyDict(nlb.listeners.data)),
           KV("certificates", PyDict(<<>>)),
           KV("freeform_tags", OrEmpty(nlb.details.freeform_tags)),
           KV("defined_tags", OrEmpty(nlb.details.defined_tags))>>)

\* What get_load_balancer and get_network_load_balancer return.
LoadBalancerDetails(lifecycle_state, backend_sets, listeners, certificates) ==
  [lifecycle_state |-> PyStr(lifecycle_state), time_created |-> PyNone,
   backend_sets |-> backend_sets, listeners |-> listeners, certificates |-> certificates,
   freeform_tags |-> PyNone, defined_tags |-> PyDict(<<>>)]

\* The Classic load balancers of the tenancy: one without backend sets and
\* listeners, one with a healthy backend set and no listener, one whose
\* details cannot be fetched.
ClassicLoadBalancers ==
  {[display_name |-> "lb-ghost", id |-> "ocid1.loadbalancer.oc1..ghost",
    details |-> LoadBalancerDetails("ACTIVE", PyNone, PyNone, PyNone)],
   [display_name |-> "lb-idle", id |-> "ocid1.loadbalancer.oc1..idle",
    details |-> LoadBalancerDetails("ACTIVE", Named(BackendSetName, <<Healthy>>), PyDict(<<>>), Certificate)],
   [display_name |-> "lb-gone", id |-> "ocid1.loadbalancer.oc1..gone", details |-> Unavailable]}

NetworkListener == <<KV("l1", Listener(PyStr("TCP"), PyStr("bs1")))>>

\* The Network load balancers of the tenancy: a healthy one, a healthy one in
\* state FAILED, one whose backend sets cannot be listed, one whose details
\* cannot be fetched.
NetworkLoadBalancers ==
  {[display_name |-> "nlb-busy", id |-> "ocid1.networkloadbalancer.oc1..busy",
    details |-> LoadBalancerDetails("ACTIVE", PyNone, PyNone, PyNone),
    backend_sets |-> Answer(<<[name |-> "bs1", backends |-> Answer(1)]>>),
    listeners |-> Answer(NetworkListener)],
   [display_name |-> "nlb-failed", id |-> "ocid1.networkloadbalancer.oc1..failed",
    details |-> LoadBalancerDetails("FAILED", PyNone, PyNone, PyNone),
    backend_sets |-> Answer(<<[name |-> "bs1", backends |-> Answer(1)]>>),
    listeners |-> Answer(NetworkListener)],
   [display_name |-> "nlb-dark", id |-> "ocid1.networkloadbalancer.oc1..dark",
    details |-> LoadBalancerDetails("ACTIVE", PyNone, PyNone, PyNone),
    backend_sets |-> NoAnswer,
    listeners |-> Answer(NetworkListener)],
   [display_name |-> "nlb-gone", id |-> "ocid1.networkloadbalancer.oc1..gone",
    details |-> Unavailable, backend_sets |-> NoAnswer, listeners |-> NoAnswer]}

\* The answers of list_load_balancers and list_network_load_balancers.
ClassicListings == {NoAnswer} \cup {Answer(q) : q \in SeqsUpTo(ClassicLoadBalancers, MaxListed)}

NetworkListings == {NoAnswer} \cup {Answer(q) : q \in SeqsUpTo(NetworkLoadBalancers, MaxListed)}

\* The compartments get_all_compartments returns, with what each holds.
Compartments ==
  {[name |-> "kitchen", classic |-> cl, network |-> nl] : cl \in ClassicListings, nl \in NetworkListings}

\* analyze_load_balancer_health on a dict: the dict of the try block run, or
\* that of the handler.
Analysis(run, data, compartment, type) ==
  IF run.err = "" THEN run.verdict ELSE DegradedVerdict(data, compartment, type, run.err)

Analyze(data, compartment, type, clock) ==
  Analysis(TryBlock(data, compartment, type, clock), data, compartment, type)

\* _get_display_status (lines 469-480): the icon and the text it returns.
DisplayStatus(ghost_score) ==
  IF ghost_score >= 80 THEN [icon |-> "ghost", text |-> "DEFINITE GHOST"]
  ELSE IF ghost_score >= 60 THEN [icon |-> "magnifier", text |-> "LIKELY GHOST"]
  ELSE IF ghost_score >= 40 THEN [icon |-> "warning", text |-> "SUSPICIOUS"]
  ELSE IF ghost_score >= 20 THEN [icon |-> "chart", text |-> "REVIEW NEEDED"]
  ELSE [icon |-> "check", text |-> "ACTIVE"]

\* A line of the console.
Line(kind, name, status, score, total) ==
  [kind |-> kind, name |-> name, icon |-> status.icon, text |-> status.text,
   score |-> score, total |-> total]

NoStatus == [icon |-> "", text |-> ""]

\* The dict of _add_failed_analysis (lines 484-501).
FailedAnalysis(lb_name, compartment, type, error_msg, lb_id) ==
  [LoadBalancerName |-> PyStr(lb_name),
   LoadBalancerType |-> type,
   Compartment |-> compartment,
   Shape |-> "Unknown",
   LifecycleState |-> PyStr("Unknown"),
   GhostScore |-> 0,
   GhostStatus |-> "ANALYSIS FAILED",
   GhostReasons |-> "Failed to analyze: " \o error_msg,
   BackendSetCount |-> 0,
   ListenerCount |-> 0,
   CertificateCount |-> 0,
   TimeCreated |-> PyStr("Unknown"),
   LoadBalancerId |-> PyStr(lb_id),
   Tags |-> "",
   BackendSetDetails |-> "",
   ListenerDetails |-> ""]

\* _add_failed_analysis dropping the entry.
AddFailedAnalysis_dropped(load_balancers, lb_name, compartment, type, error_msg, lb_id) ==
  load_balancers

\* all_load_balancers after _add_failed_analysis (line 502).
AddFailedAnalysis(load_balancers, lb_name, compartment, type, error_msg, lb_id) ==
  Append(load_balancers, FailedAnalysis(lb_name, compartment, type, error_msg, lb_id))

\* The comprehension of line 467 keeping the verdicts of a score from 20.
SuspiciousOf_from_review(load_balancers) ==
  SelectSeq(load_balancers, LAMBDA lb : lb.GhostScore >= 20)

\* [lb for lb in self.all_load_balancers if lb['GhostScore'] >= 40]  (line 467)
SuspiciousOf(load_balancers) ==
  SelectSeq(load_balancers, LAMBDA lb : lb.GhostScore >= 40)

\* ghost goes before the entries of sorted that came after it in the list
\* and do not have a higher score.
InsertByScore(ghost, sorted) ==
  LET above == Cardinality({k \in 1..Len(sorted) : sorted[k].GhostScore > ghost.GhostScore}) IN
  SubSeq(sorted, 1, above) \o <<ghost>> \o SubSeq(sorted, above + 1, Len(sorted))

\* sorted(load_balancers, key=lambda x: x['GhostScore'], reverse=True)
\* (lines 519, 599): by score, highest first, equal scores in list order.
RECURSIVE SortedByScore(_)
SortedByScore(load_balancers) ==
  IF load_balancers = <<>> THEN <<>>
  ELSE InsertByScore(Head(load_balancers), SortedByScore(Tail(load_balancers)))

\* The items of a listing, [] when the call raised (lines 314-331).
Listed(listing) == IF listing.ok THEN listing.data ELSE <<>>

classic_lbs == Listed(tenancy[position.c].classic)

network_lbs == Listed(tenancy[position.c].network)

\* Where the scan goes on from index i of the loop phase of compartment c.
Onward(c, phase, i) ==
  IF phase = "classic" /\ i <= Len(Listed(tenancy[c].classic))
    THEN [at |-> "classic", c |-> c, i |-> i]
  ELSE IF phase = "classic" /\ Len(Listed(tenancy[c].network)) > 0
    THEN [at |-> "network", c |-> c, i |-> 1]
  ELSE IF phase = "network" /\ i <= Len(Listed(tenancy[c].network))
    THEN [at |-> "network", c |-> c, i |-> i]
  ELSE IF c < Len(tenancy)
    THEN [at |-> "compartment", c |-> c + 1, i |-> 0]
  ELSE [at |-> "summary", c |-> c, i |-> 0]

HuntInit ==
  /\ tenancy \in SeqsUpTo(Compartments, MaxCompartments)
  /\ position = [at |-> "start", c |-> 0, i |-> 0]
  /\ all_load_balancers = <<>>
  /\ suspicious_load_balancers = <<>>
  /\ total_load_balancers = 0
  /\ total_ghosts = 0
  /\ console = <<>>
  /\ csv_rows = <<>>
  /\ html_rows = <<>>
  /\ now = 2904
  /\ lb_data = PyNone
  /\ compartment_name = ""
  /\ lb_type = ""
  /\ pc = "idle"
  /\ result = <<>>
  /\ error = ""
  /\ ghost_reasons = <<>>
  /\ ghost_trace = <<>>
  /\ previous = <<>>

\* Lines 291-307: without compartments the scan returns at once.
ScanStarts ==
  /\ position.at = "start"
  /\ IF tenancy = <<>>
       THEN /\ position' = [at |-> "scanned", c |-> 0, i |-> 0]
            /\ console' = Append(console, Line("error", "No compartments found!", NoStatus, 0, 0))
       ELSE /\ position' = [at |-> "compartment", c |-> 1, i |-> 0]
            /\ console' = Append(console, Line("found", "", NoStatus, 0, Len(tenancy)))
  /\ total_load_balancers' = 0
  /\ total_ghosts' = 0
  /\ UNCHANGED <<callVars, hunterVars, tenancy, csv_rows, html_rows>>

\* Lines 309-340: the two listings of a compartment and the count.
ScanCompartment ==
  /\ position.at = "compartment"
  /\ total_load_balancers' = total_load_balancers + Len(classic_lbs) + Len(network_lbs)
  /\ position' = Onward(position.c, "classic", 1)
  /\ console' = Append(console, Line("compartment", tenancy[position.c].name, NoStatus, 0,
                                     Len(classic_lbs) + Len(network_lbs)))
  /\ UNCHANGED <<callVars, hunterVars, tenancy, total_ghosts, csv_rows, html_rows>>

\* Lines 368-379 for the dict of a load balancer of the compartment.
Collect(lb_dict, type) ==
  \E analysis \in {Analyze(lb_dict, tenancy[position.c].name, type, now)} :
    /\ total_ghosts' = total_ghosts + (IF analysis.GhostScore >= 40 THEN 1 ELSE 0)
    /\ console' = Append(console, Line("result", Format(analysis.LoadBalancerName),
                                       DisplayStatus(analysis.GhostScore), analysis.GhostScore, 0))
    /\ all_load_balancers' = Append(all_load_balancers, analysis)

\* Lines 381-383 and 454-456 for the load balancer lb of the compartment.
CollectFailed(lb, type) ==
  /\ all_load_balancers' = AddFailedAnalysis(all_load_balancers, lb.display_name,
                                             tenancy[position.c].name, type, ServiceError, lb.id)
  /\ console' = Append(console, Line("failed", lb.display_name, NoStatus, 0, 0))
  /\ UNCHANGED total_ghosts

\* One pass of the loop of lines 343-383.
AnalyzeClassic ==
  /\ position.at = "classic"
  /\ IF classic_lbs[position.i].details = Unavailable
       THEN CollectFailed(classic_lbs[position.i], "Classic")
       ELSE Collect(ClassicDict(classic_lbs[position.i]), "Classic")
  /\ position' = Onward(position.c, "classic", position.i + 1)
  /\ UNCHANGED <<callVars, suspicious_load_balancers, tenancy, total_load_balancers, csv_rows, html_rows>>

\* One pass of the loop of lines 386-456.
AnalyzeNetwork ==
  /\ position.at = "network"
  /\ IF network_lbs[position.i].details = Unavailable
       THEN CollectFailed(network_lbs[position.i], "Network")
       ELSE Collect(NetworkDict(network_lbs[position.i]), "Network")
  /\ position' = Onward(position.c, "network", position.i + 1)
  /\ UNCHANGED <<callVars, suspicious_load_balancers, tenancy, total_load_balancers, csv_rows, html_rows>>

\* The lines of the loop of lines 519-530 for the ghosts.
GhostLines(ghosts) ==
  [k \in 1..Len(ghosts) |->
     Line("ghost", Format(ghosts[k].LoadBalancerName), DisplayStatus(ghosts[k].GhostScore),
          ghosts[k].GhostScore, 0)]

\* _display_summary (lines 504-530), called at line 464.
DisplaySummary ==
  /\ position.at = "summary"
  /\ console' = Append(console, Line("summary", "", NoStatus, total_ghosts, total_load_balancers))
                  \o GhostLines(SortedByScore(suspicious_load_balancers))
  /\ position' = [position EXCEPT !.at = "filter"]
  /\ UNCHANGED <<callVars, hunterVars, tenancy, total_load_balancers, total_ghosts, csv_rows, html_rows>>

\* Line 467, the last of scan_load_balancers.
FilterSuspicious ==
  /\ position.at = "filter"
  /\ suspicious_load_balancers' = SuspiciousOf(all_load_balancers)
  /\ position' = [position EXCEPT !.at = "scanned"]
  /\ UNCHANGED <<callVars, all_load_balancers, tenancy, total_load_balancers, total_ghosts,
                 console, csv_rows, html_rows>>

\* export_to_csv (lines 532-561): writerows of the list as it is.
ExportToCsv ==
  /\ position.at = "scanned"
  /\ csv_rows' = suspicious_load_balancers
  /\ position' = [position EXCEPT !.at = "exported"]
  /\ UNCHANGED <<callVars, hunterVars, tenancy, total_load_balancers, total_ghosts, console, html_rows>>

\* generate_html_report (lines 563-622): the table rows of lines 596-622.
GenerateHtmlReport ==
  /\ position.at = "exported"
  /\ html_rows' = SortedByScore(suspicious_load_balancers)
  /\ position' = [position EXCEPT !.at = "done"]
  /\ UNCHANGED <<callVars, hunterVars, tenancy, total_load_balancers, total_ghosts, console, csv_rows>>

HuntNext ==
  \/ ScanStarts
  \/ ScanCompartment
  \/ AnalyzeClassic
  \/ AnalyzeNetwork
  \/ DisplaySummary
  \/ FilterSuspicious
  \/ ExportToCsv
  \/ GenerateHtmlReport

HuntSpec == HuntInit /\ [][HuntNext]_vars

(***************************************************************************)
(* Properties.                                                             *)
(***************************************************************************)
\* The call returned the dict of the try block.
Classified == pc = "returned" /\ error = ""

\* What rule i (1..5) added to ghost_score.
Gain(i) == ghost_trace[i] - (IF i = 1 THEN 0 ELSE ghost_trace[i - 1])

\* reason is one of the entries of ghost_reasons.
Given(reason) == \E i \in 1..Len(ghost_reasons) : ghost_reasons[i] = reason

\* Some entry of ghost_reasons is in the set reasons.
GivenAny(reasons) == \E i \in 1..Len(ghost_reasons) : ghost_reasons[i] \in reasons

\* The value of a field of the record, Absent when the record leaves it out.
Field(name) == Get(lb_data, name, Absent)

SomeBackendSetsReasons ==
  {Fraction("Some backend sets are empty", k, n) : k \in 0..(MaxBackendSets + 1), n \in 0..(MaxBackendSets + 1)}

BackendSetReasons ==
  {"No backend sets configured", "All backend sets are empty or offline"} \cup SomeBackendSetsReasons

SomeListenersReasons ==
  {Fraction("Some listeners lack backend sets", k, n) : k \in 0..(MaxListeners + 1), n \in 0..(MaxListeners + 1)}

ListenerReasons ==
  {"No listeners configured", "All listeners lack valid backend sets"} \cup SomeListenersReasons

\* C1: for a map-shaped record no exception leaves analyze_load_balancer_health;
\* whenever the try block raised, and in particular whenever backend_sets or
\* one of its values is not map-shaped, the verdict returned is the degraded
\* one: GhostStatus ANALYSIS FAILED, GhostScore 0, GhostReasons holding the
\* error text, and the three counts 0.
C1_DegradedVerdict ==
  /\ (pc # "call" /\ lb_data.t = "dict") => pc = "returned"
  /\ (pc = "returned" /\ (error # "" \/ Field("backend_sets").t \in {"None", "list"}
                          \/ (Field("backend_sets").t = "dict"
                              /\ \E i \in 1..Len(Field("backend_sets").v) :
                                   Field("backend_sets").v[i].d.t # "dict")))
       => /\ error # ""
          /\ result.GhostStatus = "ANALYSIS FAILED"
          /\ result.GhostScore = 0
          /\ result.GhostReasons = "Error during analysis: " \o error
          /\ result.BackendSetCount = 0
          /\ result.ListenerCount = 0
          /\ result.CertificateCount = 0

\* A backend-set value that is not map-shaped gave the degraded verdict.
C1_Witness ==
  /\ pc = "returned"
  /\ Field("backend_sets").t = "dict"
  /\ Len(Field("backend_sets").v) = 2
  /\ Field("backend_sets").v[2].d.t = "list"
  /\ error = "'list' object has no attribute 'get'"
  /\ result.GhostStatus = "ANALYSIS FAILED"

ScoreBound == 200

\* The status the thresholds give a score.
Tier(score) ==
  CASE score >= 80 -> "DEFINITE GHOST"
    [] score >= 60 /\ score <= 79 -> "LIKELY GHOST"
    [] score >= 40 /\ score <= 59 -> "SUSPICIOUS"
    [] score >= 20 /\ score <= 39 -> "REVIEW NEEDED"
    [] score <= 19 -> "ACTIVE"

\* C2: the GhostStatus of a classified record is the tier of its final
\* GhostScore: >= 80 DEFINITE GHOST, 60..79 LIKELY GHOST, 40..59 SUSPICIOUS,
\* 20..39 REVIEW NEEDED, below 20 ACTIVE; the derivation gives every score
\* up to ScoreBound its tier (80 DEFINITE, 79 LIKELY, 40 SUSPICIOUS,
\* 20 REVIEW NEEDED, 19 ACTIVE).
C2_StatusFromScore ==
  /\ Classified => result.GhostStatus = Tier(result.GhostScore)
  /\ Classified => result.GhostScore = ghost_trace[5]
  /\ \A score \in 0..ScoreBound : DetermineStatus(score) = Tier(score)
  /\ DetermineStatus(80) = "DEFINITE GHOST" /\ DetermineStatus(79) = "LIKELY GHOST"
  /\ DetermineStatus(40) = "SUSPICIOUS" /\ DetermineStatus(20) = "REVIEW NEEDED"
  /\ DetermineStatus(19) = "ACTIVE"

\* A record was classified with a score of exactly 80.
C2_Witness == Classified /\ result.GhostScore = 80 /\ result.GhostStatus = "DEFINITE GHOST"

\* The record has no backend sets.
NoBackendSets == Field("backend_sets") \in {Absent, PyDict(<<>>)}

\* C3: a classified record without backend sets gets +50 from the backend-set
\* rule and the single reason "No backend sets configured": its score is at
\* least 50 and no other backend-set reason is given.
C3_NoBackendSets ==
  (Classified /\ NoBackendSets)
    => /\ Gain(1) = 50
       /\ result.GhostScore >= 50
       /\ ghost_reasons[1] = "No backend sets configured"
       /\ \A i \in 2..Len(ghost_reasons) : ghost_reasons[i] \notin BackendSetReasons

\* A record with a listener but no backend sets was classified.
C3_Witness ==
  /\ Classified
  /\ NoBackendSets
  /\ Field("listeners") # Absent
  /\ Field("listeners").v # <<>>
  /\ Gain(1) = 50
  /\ Len(ghost_reasons) >= 3

\* The backend set has no backend whose offline flag is False.
EmptySet(bs_data) ==
  LET backends == Get(bs_data, "backends", PyList(<<>>)) IN
  ~(\E j \in 1..Len(backends.v) : Get(backends.v[j], "offline", Absent) = PyFalse)

\* The number of backend sets of the record that are empty.
EmptySets ==
  Cardinality({i \in 1..Len(Field("backend_sets").v) : EmptySet(Field("backend_sets").v[i].d)})

NoListeners == Field("listeners") \in {Absent, PyDict(<<>>)}

\* The listener names no backend set of the record.
Dangling(listener_data) ==
  LET name == Get(listener_data, "default_backend_set_name", Absent) IN
  \/ name \in {Absent, PyNone, PyStr("")}
  \/ ~(\E i \in 1..Len(Field("backend_sets").v) : Field("backend_sets").v[i].k = name.s)

\* The number of listeners of the record that are dangling.
DanglingListeners ==
  Cardinality({i \in 1..Len(Field("listeners").v) : Dangling(Field("listeners").v[i].d)})

\* C5: for a classified record the listener rule adds exactly one of: 40 and
\* "No listeners configured" when there are no listeners; otherwise, with k of
\* the n listeners dangling (default_backend_set_name absent, empty or not a
\* key of backend_sets), 35 and "All listeners lack valid backend sets" when
\* k = n, 20 and "Some listeners lack backend sets (k/n)" when 0 < k < n, and
\* nothing when k = 0.
C5_Listeners ==
  Classified
    => LET n == IF NoListeners THEN 0 ELSE Len(Field("listeners").v)
           k == IF NoListeners THEN 0 ELSE DanglingListeners
           reason == IF n = 0 THEN "No listeners configured"
                     ELSE IF k = n THEN "All listeners lack valid backend sets"
                     ELSE IF k > 0 THEN Fraction("Some listeners lack backend sets", k, n)
                     ELSE ""
           points == IF n = 0 THEN 40 ELSE IF k = n THEN 35 ELSE IF k > 0 THEN 20 ELSE 0 IN
       /\ Gain(2) = points
       /\ reason # "" => Given(reason)
       /\ \A i \in 1..Len(ghost_reasons) :
            ghost_reasons[i] \in ListenerReasons => ghost_reasons[i] = reason
       /\ \A i, j \in 1..Len(ghost_reasons) :
            (ghost_reasons[i] \in ListenerReasons /\ ghost_reasons[j] \in ListenerReasons) => i = j

\* One of two listeners names a backend set the record does not have.
C5_Witness ==
  /\ Classified
  /\ ~NoListeners
  /\ Len(Field("listeners").v) = 2
  /\ Get(Field("listeners").v[1].d, "default_backend_set_name", Absent) = PyStr("bs1")
  /\ Get(Field("listeners").v[2].d, "default_backend_set_name", Absent) = PyStr("bs2")
  /\ Len(Field("backend_sets").v) = 1
  /\ Gain(2) = 20
  /\ Given("Some listeners lack backend sets (1/2)")

\* The record has no certificates.
NoCertificates == Field("certificates") \in {Absent, PyDict(<<>>)}

\* The spellings of HTTPS and SSL in upper, lower and mixed case.
SecureProtocols == {"HTTPS", "https", "Https", "hTTPS", "SSL", "ssl", "Ssl"}

\* Some listener of the record has one of the secure protocols.
HasSecureListener ==
  \E i \in 1..Len(Field("listeners").v) :
    Get(Field("listeners").v[i].d, "protocol", Absent) \in {PyStr(p) : p \in SecureProtocols}

\* C6: the certificate rule adds 15 and "HTTPS listeners without SSL
\* certificates" exactly when lb_type is Classic, certificates is empty and
\* a listener's protocol is HTTPS or SSL in any case; otherwise it adds
\* nothing, so a record classified as Network never gets it.
C6_Certificates ==
  Classified
    => LET fires == lb_type = "Classic" /\ NoCertificates /\ HasSecureListener IN
       /\ Gain(3) = (IF fires THEN 15 ELSE 0)
       /\ Given("HTTPS listeners without SSL certificates") <=> fires
       /\ lb_type = "Network" => Gain(3) = 0

\* A Classic record without certificates has a listener with protocol "Ssl".
C6_Witness ==
  /\ Classified
  /\ lb_type = "Classic"
  /\ Field("certificates") = Absent
  /\ Len(Field("listeners").v) = 2
  /\ Get(Field("listeners").v[1].d, "protocol", Absent) = PyStr("TCP")
  /\ Get(Field("listeners").v[2].d, "protocol", Absent) = PyStr("Ssl")
  /\ Gain(3) = 15

\* The text of the record's lifecycle state.
StateText == IF Field("lifecycle_state") = Absent THEN "UNKNOWN" ELSE Field("lifecycle_state").s

LifecycleReasons ==
  {"Load balancer in " \o x \o " state" : x \in {"UNKNOWN", "ACTIVE", "CREATING", "FAILED"}}

\* C7: the lifecycle rule adds 30 and "Load balancer in {state} state"
\* exactly when lifecycle_state is neither ACTIVE nor CREATING, and nothing
\* when it is one of them.
C7_Lifecycle ==
  Classified
    => IF StateText \in {"ACTIVE", "CREATING"}
         THEN Gain(4) = 0 /\ ~GivenAny(LifecycleReasons)
         ELSE Gain(4) = 30 /\ Given("Load balancer in " \o StateText \o " state")

\* A record in state FAILED was classified.
C7_Witness ==
  /\ Classified
  /\ Field("lifecycle_state") = PyStr("FAILED")
  /\ Gain(4) = 30
  /\ Given("Load balancer in FAILED state")

\* The ISO 8601 timestamps among the texts of time_created.
Timestamps ==
  {"2024-01-22T00:00:00", "2024-01-22T00:00:00Z", "2024-01-22 00:00:00+00:00",
   "2024-03-31T00:00:00Z", "2024-03-31T01:00:00Z", "2024-03-31T05:00:00+05:00",
   "2024-04-01T00:00:00Z", "2024-06-01T00:00:00Z"}

\* The hour the timestamp denotes; one without an offset is read as UTC.
HourOf(text) ==
  CASE text \in {"2024-01-22T00:00:00", "2024-01-22T00:00:00Z", "2024-01-22 00:00:00+00:00"} -> 504
    [] text \in {"2024-03-31T00:00:00Z", "2024-03-31T05:00:00+05:00"} -> 2160
    [] text = "2024-03-31T01:00:00Z" -> 2161
    [] text = "2024-04-01T00:00:00Z" -> 2184
    [] text = "2024-06-01T00:00:00Z" -> 3648

\* time_created is an ISO 8601 timestamp.
HasTimestamp == Field("time_created").t = "str" /\ Field("time_created").s \in Timestamps

\* The age of the record in hours.
AgeHours == now - HourOf(Field("time_created").s)

MaxDays == 150

AgeReasons == {"Created " \o ToString(d) \o " days ago with issues" : d \in 0..MaxDays}

\* C8: the stale bonus (+10, "Created {days} days ago with issues") is added
\* only when the score of rules 1-4 is more than 40 and the record is more
\* than 30 days old: none at a score of 0 or of exactly 40 at any age, and
\* none at an age of exactly 30 days at any score.
C8_BonusNeeds ==
  Classified
    => /\ Gain(5) \in {0, 10}
       /\ GivenAny(AgeReasons) <=> Gain(5) = 10
       /\ Gain(5) = 10 => (ghost_trace[4] > 40 /\ HasTimestamp /\ AgeHours >= 31 * 24)
       /\ ghost_trace[4] \in {0, 40} => Gain(5) = 0
       /\ (HasTimestamp /\ AgeHours >= 30 * 24 /\ AgeHours < 31 * 24) => Gain(5) = 0

\* A record 100 days old whose rules 1-4 give exactly 40 got no bonus.
C8_Witness ==
  /\ Classified
  /\ HasTimestamp
  /\ AgeHours = 100 * 24
  /\ Field("time_created").s = "2024-01-22T00:00:00Z"
  /\ ghost_trace[4] = 40
  /\ Gain(5) = 0

\* C9: whenever time_created is an ISO 8601 timestamp, with or without a UTC
\* offset, more than 30 days before now and the score of rules 1-4 is more
\* than 40, the stale bonus +10 is added; when the timestamp is absent or
\* does not parse the rule adds nothing and the record is still classified.
C9_BonusGiven ==
  /\ (Classified /\ HasTimestamp /\ AgeHours >= 31 * 24 /\ ghost_trace[4] > 40)
       => (Gain(5) = 10 /\ GivenAny(AgeReasons))
  /\ (Classified /\ ~HasTimestamp) => (Gain(5) = 0 /\ ~GivenAny(AgeReasons))
  /\ (pc = "returned" /\ lb_data \in ScoreRecords) => Classified

\* The rule a reason comes from.
RuleOf(reason) ==
  CASE reason \in BackendSetReasons -> 1
    [] reason \in ListenerReasons -> 2
    [] reason = "HTTPS listeners without SSL certificates" -> 3
    [] reason \in LifecycleReasons -> 4
    [] reason \in AgeReasons -> 5
    [] OTHER -> 0

\* C10: the reasons of a verdict are in rule order, backend sets, listeners,
\* certificates, lifecycle, stale bonus, with at most one reason of each
\* rule, so at most five, and GhostReasons joins them in that order.
C10_ReasonOrder ==
  Classified
    => /\ \A i \in 1..Len(ghost_reasons) : RuleOf(ghost_reasons[i]) \in 1..5
       /\ \A i, j \in 1..Len(ghost_reasons) :
            i < j => RuleOf(ghost_reasons[i]) < RuleOf(ghost_reasons[j])
       /\ Len(ghost_reasons) <= 5
       /\ result.GhostReasons = Join(ghost_reasons)

\* All five rules gave a reason.
C10_Witness ==
  /\ Classified
  /\ Len(ghost_reasons) = 5
  /\ result.GhostReasons = "Some backend sets are empty (1/2); Some listeners lack backend sets (1/2); HTTPS listeners without SSL certificates; Load balancer in FAILED state; Created 31 days ago with issues"

\* C11 as claimed: for every classified record, records with empty maps
\* included, in which every backend set has a backend with offline flag
\* False and every listener names an existing backend set, the backend-set
\* rule and the listener rule both add nothing and give no reason.
C11_HealthyAddsNothing ==
  (Classified /\ EmptySets = 0 /\ DanglingListeners = 0)
    => /\ Gain(1) = 0
       /\ Gain(2) = 0
       /\ ~GivenAny(BackendSetReasons \cup ListenerReasons)

\* C11 as amended: for a classified record with at least one backend set,
\* each with a backend whose offline flag is False, the backend-set rule
\* adds nothing and gives no reason; for one with at least one listener,
\* each naming an existing backend set, the listener rule adds nothing and
\* gives no reason.
C11_HealthyNonEmptyAddsNothing ==
  Classified
    => /\ (~NoBackendSets /\ EmptySets = 0)
            => (Gain(1) = 0 /\ ~GivenAny(BackendSetReasons))
       /\ (~NoListeners /\ DanglingListeners = 0)
            => (Gain(2) = 0 /\ ~GivenAny(ListenerReasons))

\* Two healthy backend sets, each the target of a listener.
C11_Witness ==
  /\ Classified
  /\ Len(Field("backend_sets").v) = 2
  /\ Len(Field("listeners").v) = 2
  /\ EmptySets = 0
  /\ DanglingListeners = 0
  /\ Field("listeners").v[1].d # Field("listeners").v[2].d
  /\ Gain(1) = 0
  /\ Gain(2) = 0

\* The GhostScore a call returns.
ScoreOf(data, type, clock) ==
  LET run == TryBlock(data, "kitchen", type, clock) IN
  IF run.err = "" THEN run.verdict.GhostScore ELSE 0

\* The scores of the records that combine the outcomes of the rules.
Scores == {ScoreOf(data, type, clock) : data \in ScoreRecords, type \in Types, clock \in Clocks}

LargestScore == CHOOSE m \in Scores : \A score \in Scores : score <= m

\* C12 as claimed: over all well-typed records, both types and all times,
\* no score is negative and the largest score is 180.
C12_LargestScore180 ==
  pc = "returned"
    => /\ result.GhostScore >= 0
       /\ result.GhostScore <= 180
       /\ result.GhostScore = LargestScore => result.GhostScore = 180

\* C12 as amended: over all well-typed records, both types and all times,
\* no score is negative and the largest score is 140 (50 + 35 + 15 + 30 +
\* 10, not clamped to 100): a record with an HTTPS listener has a listener,
\* so the certificate rule never meets the +40 of the listener rule.
C12_LargestScore140 ==
  /\ pc = "returned"
       => /\ result.GhostScore >= 0
          /\ result.GhostScore <= 140
          /\ result.GhostScore = LargestScore => result.GhostScore = 140
  /\ Classified => (Gain(3) = 15 => Gain(2) <= 35)

\* A Classic record scored 140: no backend sets, a dangling HTTPS listener,
\* no certificates, state FAILED, 100 days old.
C12_Witness ==
  /\ Classified
  /\ result.GhostScore = 140
  /\ result.GhostStatus = "DEFINITE GHOST"
  /\ ghost_trace = <<50, 85, 100, 130, 140>>

\* Scenario B: a Network record with one backend set of two backends, both
\* offline, one listener that names the set, and lifecycle_state ACTIVE.
ScenarioB ==
  /\ lb_type = "Network"
  /\ Field("backend_sets") = Named(BackendSetName, <<BackendSet(PyList(<<Backend(PyTrue), Backend(PyTrue)>>))>>)
  /\ Field("listeners").t = "dict"
  /\ Len(Field("listeners").v) = 1
  /\ Get(Field("listeners").v[1].d, "default_backend_set_name", Absent) = PyStr("bs1")
  /\ Field("lifecycle_state") = PyStr("ACTIVE")

ScenarioA ==
  /\ lb_type = "Classic"
  /\ lb_data.t = "dict"
  /\ NoBackendSets
  /\ NoListeners
  /\ Field("lifecycle_state") = PyStr("ACTIVE")
  /\ Field("time_created") \in {Absent, PyNone}

\* C14: scenario A scores exactly 90, has status DEFINITE GHOST, and its
\* reasons are exactly "No backend sets configured" followed by "No listeners
\* configured".
C14_ScenarioA ==
  (pc = "returned" /\ ScenarioA /\ Field("certificates").t \in {"absent", "dict"}
     /\ Field("freeform_tags").t \in {"absent", "dict"} /\ Field("defined_tags") \in {Absent, PyDict(<<>>)})
    => /\ Classified
       /\ result.GhostScore = 90
       /\ result.GhostStatus = "DEFINITE GHOST"
       /\ ghost_reasons = <<"No backend sets configured", "No listeners configured">>
       /\ result.GhostReasons = "No backend sets configured; No listeners configured"

\* Scenario A with empty maps of backend sets, listeners and certificates
\* was classified.
C14_Witness ==
  /\ Classified
  /\ ScenarioA
  /\ Field("backend_sets") = PyDict(<<>>)
  /\ Field("listeners") = PyDict(<<>>)
  /\ Field("certificates") = PyDict(<<>>)
  /\ result.GhostScore = 90

\* The backend is of the shape the scan builds.
WellTypedBackend(b) ==
  b.t = "dict" /\ Get(b, "offline", Absent) \in {Absent, PyTrue, PyFalse}

\* The backend set is of the shape the scan builds.
WellTypedBackendSet(bs_data) ==
  /\ bs_data.t = "dict"
  /\ Get(bs_data, "backends", Absent).t \in {"absent", "list"}
  /\ \A j \in 1..Len(Get(bs_data, "backends", Absent).v) :
       WellTypedBackend(Get(bs_data, "backends", Absent).v[j])

\* The listener is of the shape the scan builds.
WellTypedListener(listener_data) ==
  /\ listener_data.t = "dict"
  /\ Get(listener_data, "protocol", Absent).t \in {"absent", "str"}
  /\ Get(listener_data, "port", Absent).t \in {"absent", "int"}
  /\ Get(listener_data, "default_backend_set_name", Absent).t \in {"absent", "None", "str"}

\* Every field the record has is of the type the scan gives it.
WellTyped ==
  /\ lb_data.t = "dict"
  /\ \A name \in {"id", "display_name", "shape_name", "lifecycle_state"} :
       Field(name).t \in {"absent", "str"}
  /\ Field("time_created").t \in {"absent", "None", "str"}
  /\ Field("backend_sets").t \in {"absent", "dict"}
  /\ \A i \in 1..Len(Field("backend_sets").v) : WellTypedBackendSet(Field("backend_sets").v[i].d)
  /\ Field("listeners").t \in {"absent", "dict"}
  /\ \A i \in 1..Len(Field("listeners").v) : WellTypedListener(Field("listeners").v[i].d)
  /\ Field("certificates").t \in {"absent", "dict"}
  /\ Field("freeform_tags").t \in {"absent", "dict"}
  /\ Field("defined_tags").t \in {"absent", "dict"}
  /\ \A i \in 1..Len(Field("defined_tags").v) : Field("defined_tags").v[i].d.t = "dict"

\* C16: for every record whose present fields are well-typed, whichever of
\* its fields are absent, the call returns the dict of the try block, whose
\* GhostStatus is not ANALYSIS FAILED, and an absent field reads as its
\* default: "Unknown" for the name, the id and the timestamp, UNKNOWN for
\* the state, no entries for the collections and the tags.
C16_AbsentFieldsDefault ==
  (pc # "call" /\ WellTyped)
    => /\ Classified
       /\ result.GhostStatus # "ANALYSIS FAILED"
       /\ result.GhostStatus = Tier(result.GhostScore)
       /\ Field("display_name") = Absent => result.LoadBalancerName = PyStr("Unknown")
       /\ Field("id") = Absent => result.LoadBalancerId = PyStr("Unknown")
       /\ Field("time_created") = Absent => (result.TimeCreated = PyStr("Unknown") /\ Gain(5) = 0)
       /\ Field("lifecycle_state") = Absent
            => (result.LifecycleState = PyStr("UNKNOWN") /\ Gain(4) = 30)
       /\ Field("backend_sets") = Absent
            => (result.BackendSetCount = 0 /\ result.BackendSetDetails = "" /\ Gain(1) = 50)
       /\ Field("listeners") = Absent
            => (result.ListenerCount = 0 /\ result.ListenerDetails = "" /\ Gain(2) = 40)
       /\ Field("certificates") = Absent => result.CertificateCount = 0
       /\ (Field("freeform_tags") = Absent /\ Field("defined_tags") = Absent) => result.Tags = ""

\* A record without any field was classified.
C16_Witness ==
  /\ Classified
  /\ lb_data = PyDict(<<>>)
  /\ result.GhostScore = 120
  /\ result.GhostStatus = "DEFINITE GHOST"
  /\ result.LoadBalancerName = PyStr("Unknown")

Scanned == position.at \in {"scanned", "exported", "done"} /\ tenancy # <<>>

\* The places of all_load_balancers whose verdict has a score from 40.
Ghosts == {k \in 1..Len(all_load_balancers) : all_load_balancers[k].GhostScore >= 40}

\* The place in all_load_balancers of the j-th of the Ghosts.
GhostAt(j) == CHOOSE k \in Ghosts : Cardinality({m \in Ghosts : m <= k}) = j

GhostStatuses == {"SUSPICIOUS", "LIKELY GHOST", "DEFINITE GHOST"}

\* C17: once scan_load_balancers has completed a scan that found a
\* compartment, suspicious_load_balancers is exactly the verdicts of
\* all_load_balancers with GhostScore >= 40, in their order; these are the
\* verdicts whose GhostStatus is SUSPICIOUS, LIKELY GHOST or DEFINITE GHOST,
\* and none with status ACTIVE, REVIEW NEEDED or ANALYSIS FAILED is in it.
C17_SuspiciousPartition ==
  Scanned
    => /\ Len(suspicious_load_balancers) = Cardinality(Ghosts)
       /\ \A j \in 1..Len(suspicious_load_balancers) :
            suspicious_load_balancers[j] = all_load_balancers[GhostAt(j)]
       /\ \A k \in 1..Len(all_load_balancers) :
            k \in Ghosts <=> all_load_balancers[k].GhostStatus \in GhostStatuses
       /\ \A j \in 1..Len(suspicious_load_balancers) :
            suspicious_load_balancers[j].GhostStatus
              \notin {"ACTIVE", "REVIEW NEEDED", "ANALYSIS FAILED"}

\* A scan collected verdicts of status ANALYSIS FAILED, REVIEW NEEDED,
\* SUSPICIOUS and ACTIVE and kept the suspicious one.
C17_Witness ==
  /\ Scanned
  /\ Len(all_load_balancers) = 4
  /\ {all_load_balancers[k].GhostStatus : k \in 1..4}
       = {"ANALYSIS FAILED", "REVIEW NEEDED", "SUSPICIOUS", "ACTIVE"}
  /\ Len(suspicious_load_balancers) = 1
  /\ suspicious_load_balancers[1].GhostScore = 40

\* No row comes after a row of a strictly lower score.
Ordered(scores) == \A i, j \in 1..Len(scores) : i < j => scores[i] >= scores[j]

\* The scores of the verdicts, in their order.
ScoresOf(rows) == [k \in 1..Len(rows) |-> rows[k].GhostScore]

\* The scores of the detailed ghost analysis on the console, in their order.
ConsoleGhostScores == ScoresOf(SelectSeq(console, LAMBDA line : line.kind = "ghost"))

\* C18: the detailed analysis on the console, the rows of the HTML table and
\* the rows of the CSV file each list the suspicious verdicts in
\* non-increasing order of GhostScore.
C18_ReportsSorted ==
  /\ Ordered(ConsoleGhostScores)
  /\ Ordered(ScoresOf(html_rows))
  /\ Ordered(ScoresOf(csv_rows))

\* What the scan knows of a load balancer a listing call returned.
Tagged(lbs, type, compartment) ==
  [k \in 1..Len(lbs) |->
     [display_name |-> lbs[k].display_name, id |-> lbs[k].id,
      available |-> lbs[k].details # Unavailable, type |-> type, compartment |-> compartment]]

\* The load balancers the listing calls of the first c compartments return,
\* in the order the scan takes them.
RECURSIVE ListedUpTo(_)
ListedUpTo(c) ==
  IF c = 0 THEN <<>>
  ELSE ListedUpTo(c - 1)
         \o Tagged(Listed(tenancy[c].classic), "Classic", tenancy[c].name)
         \o Tagged(Listed(tenancy[c].network), "Network", tenancy[c].name)

\* The number of load balancers the scan is through with.
Handled ==
  CASE position.at = "start" -> 0
    [] position.at = "compartment" -> Len(ListedUpTo(position.c - 1))
    [] position.at = "classic" -> Len(ListedUpTo(position.c - 1)) + position.i - 1
    [] position.at = "network" ->
         Len(ListedUpTo(position.c - 1)) + Len(classic_lbs) + position.i - 1
    [] OTHER -> Len(ListedUpTo(Len(tenancy)))

\* The entry is the one of the load balancer lb: its verdict, or the entry
\* of a failed analysis when its details could not be fetched.
EntryOf(entry, lb) ==
  /\ entry.LoadBalancerName = PyStr(lb.display_name)
  /\ entry.LoadBalancerId = PyStr(lb.id)
  /\ entry.LoadBalancerType = lb.type
  /\ entry.Compartment = lb.compartment
  /\ IF lb.available
       THEN entry.GhostStatus = Tier(entry.GhostScore)
       ELSE /\ entry.GhostStatus = "ANALYSIS FAILED"
            /\ entry.GhostScore = 0
            /\ entry.GhostReasons = "Failed to analyze: " \o ServiceError

\* C19: during a scan on a fresh hunter every load balancer a listing call
\* returned gets exactly one entry of all_load_balancers, in scan order: its
\* verdict, or an ANALYSIS FAILED entry of score 0 when its details cannot
\* be fetched; the load balancers and compartments after a failure are
\* processed all the same, and when the scan ends len(all_load_balancers)
\* is total_load_balancers, the number of load balancers listed.
C19_OneEntryEach ==
  /\ Len(all_load_balancers) = Handled
  /\ \A k \in 1..Len(all_load_balancers) :
       EntryOf(all_load_balancers[k], ListedUpTo(Len(tenancy))[k])
  /\ (position.at \in {"summary", "filter", "scanned", "exported", "done"} /\ tenancy # <<>>)
       => /\ Len(all_load_balancers) = total_load_balancers
          /\ total_load_balancers = Len(ListedUpTo(Len(tenancy)))

\* Both load balancers of the first compartment failed and both of the
\* second were classified.
C19_Witness ==
  /\ position.at = "done"
  /\ Len(tenancy) = 2
  /\ total_load_balancers = 4
  /\ Len(all_load_balancers) = 4
  /\ all_load_balancers[1].GhostStatus = "ANALYSIS FAILED"
  /\ all_load_balancers[2].GhostStatus = "ANALYSIS FAILED"
  /\ all_load_balancers[3].GhostScore = 90
  /\ all_load_balancers[4].GhostScore = 85

\* The summary has been displayed.
Summarised == position.at \in {"filter", "scanned", "exported", "done"} /\ tenancy # <<>>

\* C20: when scan_load_balancers displays the summary,
\* suspicious_load_balancers holds every verdict of this scan with
\* GhostScore >= 40, so whenever the total_ghosts it reports is more than 0
\* the detailed ghost analysis lists exactly those verdicts.
C20_SummaryListsGhosts ==
  /\ position.at = "summary" => suspicious_load_balancers = SuspiciousOf(all_load_balancers)
  /\ (Summarised /\ total_ghosts > 0)
       => /\ Len(ConsoleGhostScores) = Cardinality(Ghosts)
          /\ ConsoleGhostScores = ScoresOf(SortedByScore(SuspiciousOf(all_load_balancers)))

\* display_status of lines 373 and 376 for the verdict the call returned.
display_status == DisplayStatus(result.GhostScore)

\* C21: for every verdict analyze_load_balancer_health returns, that of the
\* try block or that of the handler, the tier _get_display_status prints
\* for its GhostScore is the tier of its GhostStatus.
C21_DisplayAgrees ==
  pc = "returned" => display_status.text = result.GhostStatus

\* C22: a record without backend sets that is classified without error has
\* only dangling listeners: the listener rule adds 40 (no listeners) or 35
\* (all dangling), never 20 or 0, the score is at least 85 and the status
\* is DEFINITE GHOST.
C22_NoBackendSetsIsGhost ==
  (Classified /\ NoBackendSets)
    => /\ Gain(2) = (IF NoListeners THEN 40 ELSE 35)
       /\ ~NoListeners => DanglingListeners = Len(Field("listeners").v)
       /\ ~GivenAny(SomeListenersReasons)
       /\ result.GhostScore >= 85
       /\ result.GhostStatus = "DEFINITE GHOST"

\* A healthy-looking Network record with two listeners naming backend sets
\* but without backend sets scored exactly 85.
C22_Witness ==
  /\ Classified
  /\ NoBackendSets
  /\ lb_type = "Network"
  /\ Len(Field("listeners").v) = 2
  /\ \A i \in 1..2 :
       Get(Field("listeners").v[i].d, "default_backend_set_name", Absent).t = "str"
         /\ Get(Field("listeners").v[i].d, "default_backend_set_name", Absent).s # ""
  /\ ghost_trace = <<50, 85, 85, 85, 85>>
  /\ result.GhostStatus = "DEFINITE GHOST"

====
